---- MODULE Spec2Model ----
(***************************************************************************)
(* The Sam tree-walking evaluator (src/src/evaluate.rs) over the scope     *)
(* stack of src/src/context.rs and the values of src/src/value.rs, as an   *)
(* abstract machine.  The Rust call stack is the sequence kont of pending  *)
(* callers (head = innermost); ctl is what the innermost one is doing: a   *)
(* call being made, or the Result it has just been handed.                 *)
(***************************************************************************)
EXTENDS Integers, Sequences, FiniteSets, TLC

VARIABLES source, pos, status, call_stack, kont, ctl

vars == <<source, pos, status, call_stack, kont, ctl>>

(* ------------------------------ bounds --------------------------------- *)

\* Longest program, in top-level children.
MaxProgLen == 2

\* Deepest scope stack the model follows (the host stack is finite too).
MaxDepth == 5

\* An Int is an i64; the model keeps IntBits of its 64 bits.
IntBits == 8

(* ------------------------------ values --------------------------------- *)

Undefined == [t |-> "Undefined"]

SamInt(i) == [t |-> "SamInt", i |-> i]

SamFloat(num, den) == [t |-> "SamFloat", num |-> num, den |-> den]

SamString(s) == [t |-> "SamString", s |-> s]

SamArray(elems) == [t |-> "SamArray", elems |-> elems]

SamObject(map) == [t |-> "SamObject", map |-> map]

SamFunction(body, params) == [t |-> "SamFunction", body |-> body, params |-> params]

SamForeignFunction(cmd) == [t |-> "SamForeignFunction", cmd |-> cmd]

IsNumber(v) == v.t \in {"SamInt", "SamFloat"}

(* ---------------------------- syntax tree ------------------------------ *)

NoNode == [kind |-> "none"]

ErrorNode == [kind |-> "ERROR"]

Lit(v) == [kind |-> "literal", val |-> v]

Id(n) == [kind |-> "identifier", name |-> n]

Bin(l, op, r) == [kind |-> "binary_expression", left |-> l, op |-> op, right |-> r]

Block(ss) == [kind |-> "statement_block", stmts |-> ss]

If(c, cons, els) ==
  [kind |-> "if_expression", condition |-> c, consequence |-> cons, else |-> els]

\* body is the byte range of the lambda's statement_block
Lambda(ps, range) == [kind |-> "lambda_expression", parameters |-> ps, body |-> range]

Call(f, as) == [kind |-> "call_expression", function |-> f, arguments |-> as]

Arr(es) == [kind |-> "array_expression", items |-> es]

Nested(p, n) == [kind |-> "nested_identifier", parent |-> p, name |-> n]

ExprStmt(e) == [kind |-> "expression_statement", expr |-> e]

Declarator(n, v) == [kind |-> "variable_declarator", variable |-> n, value |-> v]

VarDecl(ds) == [kind |-> "variable_declaration", declarators |-> ds]

Assign(l, r) == [kind |-> "assignment", lhs |-> l, rhs |-> r]

Ret(v) == [kind |-> "return_statement", value |-> v]

Interface(path, module) == [kind |-> "interface", path |-> path, module |-> module]

Interfaces(is) == [kind |-> "interfaces", decls |-> is]

(* ------------------------- programs evaluated -------------------------- *)

I(n) == Lit(SamInt(n))

\* { let x = 42; return x; }
BodyF == Block(<<VarDecl(<<Declarator("x", I(42))>>), Ret(Id("x"))>>)

\* { f(); return 1; }
BodyG == Block(<<ExprStmt(Call(Id("f"), <<>>)), Ret(I(1))>>)

\* { return x + 5; }
BodyA == Block(<<Ret(Bin(Id("x"), "+", I(5)))>>)

\* { if (0) { x = 1; }; if (4 == 4) { return 3 }; x = 9; }
BodyH ==
  Block(<<ExprStmt(If(I(0), Block(<<Assign("x", I(1))>>), NoNode)),
          ExprStmt(If(Bin(I(4), "==", I(4)), Block(<<Ret(I(3))>>), NoNode)),
          Assign("x", I(9))>>)

\* { return 1; }
BodyC == Block(<<Ret(I(1))>>)

\* { return 2; }
BodyK == Block(<<Ret(I(2))>>)

\* { c = k; }
BodyM == Block(<<Assign("c", Id("k"))>>)

\* { return r(); }
BodyR == Block(<<Ret(Call(Id("r"), <<>>))>>)

\* { p(); }
BodyQ == Block(<<ExprStmt(Call(Id("p"), <<>>))>>)

\* { y = y + 1; n = y; }
BodyD == Block(<<Assign("y", Bin(Id("y"), "+", I(1))), Assign("n", Id("y"))>>)

\* { x = x + 1; return x; }
BodyS == Block(<<Assign("x", Bin(Id("x"), "+", I(1))), Ret(Id("x"))>>)

\* { n = n + 1; }
BodyE == Block(<<Assign("n", Bin(Id("n"), "+", I(1)))>>)

\* tree.root_node().descendant_for_byte_range(body.start, body.end)
descendant_for_byte_range(range) ==
  CASE range = "f" -> BodyF
    [] range = "g" -> BodyG
    [] range = "a" -> BodyA
    [] range = "h" -> BodyH
    [] range = "c" -> BodyC
    [] range = "k" -> BodyK
    [] range = "m" -> BodyM
    [] range = "r" -> BodyR
    [] range = "q" -> BodyQ
    [] range = "d" -> BodyD
    [] range = "s" -> BodyS
    [] range = "e" -> BodyE
    [] OTHER -> NoNode

LambdaA == Lambda(<<"x", "y">>, "a")

\* let x = 5;
LetX == VarDecl(<<Declarator("x", I(5))>>)

\* x = x + 1;
IncX == Assign("x", Bin(Id("x"), "+", I(1)))

\* let f = () => { let x = 42; return x; }, g = () => { f(); return 1; }, b = g();
LetFG ==
  VarDecl(<<Declarator("f", Lambda(<<>>, "f")), Declarator("g", Lambda(<<>>, "g")),
            Declarator("b", Call(Id("g"), <<>>))>>)

\* f();
CallF == ExprStmt(Call(Id("f"), <<>>))

\* return x;
RetX == Ret(Id("x"))

\* if (x == 5) { let x = 1; x = x + 1; };
IfShadow ==
  ExprStmt(If(Bin(Id("x"), "==", I(5)),
              Block(<<VarDecl(<<Declarator("x", I(1))>>), IncX>>), NoNode))

\* if (1) { let y = 2; z = y; };
IfAssignUndefined ==
  ExprStmt(If(I(1), Block(<<VarDecl(<<Declarator("y", I(2))>>),
                            Assign("z", Id("y"))>>), NoNode))

\* if (0) { } else if (0) { } else { let y = 2, w; };
IfElse ==
  ExprStmt(If(I(0), Block(<<>>),
              If(I(0), Block(<<>>),
                 Block(<<VarDecl(<<Declarator("y", I(2)), Declarator("w", NoNode)>>)>>))))

\* let b = y;
LetBY == VarDecl(<<Declarator("b", Id("y"))>>)

\* let a = (x, y) => { return x + 5; }, b = a(4, 3);
CallA2 ==
  VarDecl(<<Declarator("a", LambdaA),
            Declarator("b", Call(Id("a"), <<I(4), I(3)>>))>>)

\* let a = (x, y) => { return x + 5; }, b = a(4);
CallA1 ==
  VarDecl(<<Declarator("a", LambdaA), Declarator("b", Call(Id("a"), <<I(4)>>))>>)

\* let a = (x, y) => { return x + 5; }, b = a(4, 3, 2);
CallA3 ==
  VarDecl(<<Declarator("a", LambdaA),
            Declarator("b", Call(Id("a"), <<I(4), I(3), I(2)>>))>>)

\* let h = () => { if (0) { x = 1; }; if (4 == 4) { return 3 }; x = 9; }, b = h();
LetH ==
  VarDecl(<<Declarator("h", Lambda(<<>>, "h")), Declarator("b", Call(Id("h"), <<>>))>>)

\* let c = (p) => { return 1; }, k = (p) => { return 2; }, m = () => { c = k; };
LetCKM ==
  VarDecl(<<Declarator("c", Lambda(<<"p">>, "c")), Declarator("k", Lambda(<<"p">>, "k")),
            Declarator("m", Lambda(<<>>, "m"))>>)

\* let b = c(m());
CallCM == VarDecl(<<Declarator("b", Call(Id("c"), <<Call(Id("m"), <<>>)>>))>>)

\* let b = [1, f()];
LetArr == VarDecl(<<Declarator("b", Arr(<<I(1), Call(Id("f"), <<>>)>>))>>)

\* let b = g(f());
CallGF == VarDecl(<<Declarator("b", Call(Id("g"), <<Call(Id("f"), <<>>)>>))>>)

\* return;
RetBare == Ret(NoNode)

\* if (b) { };
IfB == ExprStmt(If(Id("b"), Block(<<>>), NoNode))

\* interface '/tmp/foo.json' load bar;
LoadBar == Interfaces(<<Interface("/tmp/foo.json", "bar")>>)

\* let o = bar();
CallBar == VarDecl(<<Declarator("o", Call(Id("bar"), <<>>))>>)

\* let s = o.status;
LetStatus == VarDecl(<<Declarator("s", Nested(Id("o"), "status"))>>)

\* let r = () => { return r(); }, b = r();
LetR ==
  VarDecl(<<Declarator("r", Lambda(<<>>, "r")), Declarator("b", Call(Id("r"), <<>>))>>)

\* a call whose function position is an ERROR node, as a syntax error leaves one
BadCall == ExprStmt(Call(ErrorNode, <<>>))

\* let x;
LetXBare == VarDecl(<<Declarator("x", NoNode)>>)

\* let q = (p) => { p(); }, z = q(bar);
LetQ ==
  VarDecl(<<Declarator("q", Lambda(<<"p">>, "q")),
            Declarator("z", Call(Id("q"), <<Id("bar")>>))>>)

\* let n = 0, d = () => { y = y + 1; n = y; }, u = if (1) { let y = 2; d(); }, v = d();
LetD ==
  VarDecl(<<Declarator("n", I(0)), Declarator("d", Lambda(<<>>, "d")),
            Declarator("u", If(I(1), Block(<<VarDecl(<<Declarator("y", I(2))>>),
                                             ExprStmt(Call(Id("d"), <<>>))>>), NoNode)),
            Declarator("v", Call(Id("d"), <<>>))>>)

\* let x = 5, s = (x) => { x = x + 1; return x; }, b = s(1);
LetS ==
  VarDecl(<<Declarator("x", I(5)), Declarator("s", Lambda(<<"x">>, "s")),
            Declarator("b", Call(Id("s"), <<I(1)>>))>>)

\* let n = 0, e = () => { n = n + 1; }, t = 0 && e(), w = 1 || e();
LetAndOr ==
  VarDecl(<<Declarator("n", I(0)), Declarator("e", Lambda(<<>>, "e")),
            Declarator("t", Bin(I(0), "&&", Call(Id("e"), <<>>))),
            Declarator("w", Bin(I(1), "||", Call(Id("e"), <<>>)))>>)

TopLevel ==
  {LetX, IncX, LetFG, CallF, RetX, IfShadow, IfAssignUndefined, IfElse, LetBY,
   CallA2, CallA1, CallA3, LetH, LetCKM, CallCM, LetArr, LoadBar, CallBar,
   LetStatus, LetR, BadCall, CallGF, RetBare, IfB, LetXBare, LetQ, LetD,
   LetS, LetAndOr}

Programs == UNION {[1..n -> TopLevel] : n \in 0..MaxProgLen}

(* --------------------------- the scope stack --------------------------- *)

\* HashMap::new()
EmptyScope == [n \in {} |-> Undefined]

\* Context::new: the global scope is created at once
NewContext == <<EmptyScope>>

\* Context::depth
depth(cs) == Len(cs)

\* Context::init_scope
init_scope(cs) == Append(cs, EmptyScope)

\* As destroy_scope, were the oldest scope the one removed.
destroy_oldest(cs) == Tail(cs)

\* Context::destroy_scope
destroy_scope(cs) == SubSeq(cs, 1, Len(cs) - 1)

\* Context::search_in_stack, from frame i down: the index of the first frame
\* holding varname, 0 for None
RECURSIVE search_from(_, _, _)
search_from(cs, varname, i) ==
  IF i = 0 THEN 0
  ELSE IF varname \notin DOMAIN cs[i] THEN search_from(cs, varname, i - 1)
  ELSE i

\* As search_in_stack, were the stack searched from the global frame up.
search_from_global(cs, varname) ==
  IF \A i \in 1..Len(cs) : varname \notin DOMAIN cs[i] THEN 0
  ELSE CHOOSE i \in 1..Len(cs) :
         varname \in DOMAIN cs[i] /\ \A j \in 1..(i - 1) : varname \notin DOMAIN cs[j]

\* As search_in_stack, were a name looked up in the top frame and then in the
\* global frame only, the frames of the callers in between left out.
search_lexical(cs, varname) ==
  IF varname \in DOMAIN cs[Len(cs)] THEN Len(cs)
  ELSE IF varname \in DOMAIN cs[1] THEN 1
  ELSE 0

search_in_stack(cs, varname) == search_from(cs, varname, Len(cs))

\* scope.insert(name, value) on the top frame (Context::current_scope)
insert_current(cs, name, value) ==
  [cs EXCEPT ![Len(cs)] = (name :> value) @@ cs[Len(cs)]]

\* As declare_current, were a declared name resolved as an assignment's is.
declare_nearest(cs, ident, hasValue, value) ==
  LET i == IF search_in_stack(cs, ident) = 0 THEN Len(cs) ELSE search_in_stack(cs, ident)
  IN IF hasValue THEN [cs EXCEPT ![i] = (ident :> value) @@ cs[i]]
     ELSE IF ident \in DOMAIN cs[i] THEN cs
     ELSE [cs EXCEPT ![i] = (ident :> Undefined) @@ cs[i]]

\* scope.entry(ident).or_insert(Undefined), then *entry = v when there is a value
declare_current(cs, ident, hasValue, value) ==
  IF hasValue THEN insert_current(cs, ident, value)
  ELSE IF ident \in DOMAIN cs[Len(cs)] THEN cs
  ELSE insert_current(cs, ident, Undefined)

\* As insert_bindings, were the bindings inserted before the new scope is
\* pushed: they land in the frame of the caller.
insert_bindings_caller(cs, bindings) ==
  LET names == {bindings[i][1] : i \in DOMAIN bindings}
      last(x) == CHOOSE i \in DOMAIN bindings :
                   bindings[i][1] = x /\ \A j \in DOMAIN bindings :
                                           bindings[j][1] = x => j <= i
  IN [cs EXCEPT ![Len(cs) - 1] = [x \in names |-> bindings[last(x)][2]] @@ @]

\* scope.insert for each (name, value) of the bindings, in order
RECURSIVE insert_bindings(_, _)
insert_bindings(cs, bindings) ==
  IF bindings = <<>> THEN cs
  ELSE insert_bindings(insert_current(cs, Head(bindings)[1], Head(bindings)[2]),
                       Tail(bindings))

\* func.params.iter().cloned().zip(args).collect()
zip(params, args) ==
  [i \in 1..(IF Len(params) < Len(args) THEN Len(params) ELSE Len(args)) |->
     <<params[i], args[i]>>]

(* --------------------------- machine states ---------------------------- *)

\* A pending caller: the function, where in it, its node, its loop index, the
\* values it has collected, and the scope-stack depth it was entered at.
Frame(fn, pc, node, idx, vals) ==
  [fn |-> fn, pc |-> pc, node |-> node, idx |-> idx, vals |-> vals,
   entry |-> depth(call_stack), callee |-> Undefined]

Idle == [m |-> "idle"]

Loop == [m |-> "loop"]

CallStatement(n) == [m |-> "evaluate_statement", node |-> n]

CallExpression(n) == [m |-> "evaluate_expression", node |-> n]

CallBlock(n, bindings) ==
  [m |-> "evaluate_statement_block", node |-> n, bindings |-> bindings]

\* Ok(EvalControl::Value(v)) / Ok(EvalControl::Return(v)) handed back by from
Ok(sig, v, from) == [m |-> "Ok", sig |-> sig, v |-> v, from |-> from]

Err(msg) == [m |-> "Err", msg |-> msg]

Running == status = "running"

At(fn, pc) == Running /\ kont # <<>> /\ Head(kont).fn = fn /\ Head(kont).pc = pc

Push(f) == <<f>> \o kont

Replace(f) == <<f>> \o Tail(kont)

Init ==
  /\ source \in Programs
  /\ pos = 0
  /\ status = "running"
  /\ call_stack = NewContext
  /\ kont = <<>>
  /\ ctl = Idle

(* -------------------------- value operations --------------------------- *)

Abs(x) == IF x < 0 THEN -x ELSE x

Sign(x) == IF x < 0 THEN -1 ELSE IF x = 0 THEN 0 ELSE 1

RECURSIVE Gcd(_, _)
Gcd(a, b) == IF b = 0 THEN a ELSE Gcd(b, a % b)

\* An f64 as a fraction in lowest terms; den = 0 holds the infinities
\* (num = 1, -1) and NaN (num = 0).
Float(num, den) ==
  IF den = 0 THEN SamFloat(Sign(num), 0)
  ELSE LET g == Gcd(Abs(num), Abs(den))
       IN SamFloat(Sign(den) * (num \div g), Abs(den) \div g)

NaN == SamFloat(0, 0)

IsNaN(f) == f.den = 0 /\ f.num = 0

IsInf(f) == f.den = 0 /\ f.num # 0

\* Number::as_f64
as_f64(n) == IF n.t = "SamInt" THEN SamFloat(n.i, 1) ELSE n

FAdd(a, b) ==
  IF IsNaN(a) \/ IsNaN(b) THEN NaN
  ELSE IF IsInf(a) /\ IsInf(b) THEN (IF a.num = b.num THEN a ELSE NaN)
  ELSE Float(a.num * b.den + b.num * a.den, a.den * b.den)

FNeg(a) == SamFloat(-a.num, a.den)

FMul(a, b) == Float(a.num * b.num, a.den * b.den)

FRecip(a) ==
  IF a.num = 0 THEN (IF a.den = 0 THEN NaN ELSE SamFloat(1, 0))
  ELSE IF a.den = 0 THEN SamFloat(0, 1)
  ELSE Float(a.den, a.num)

FDiv(a, b) == FMul(a, FRecip(b))

FLess(a, b) ==
  /\ ~IsNaN(a) /\ ~IsNaN(b)
  /\ IF IsInf(a) \/ IsInf(b)
     THEN (IF IsInf(a) THEN a.num ELSE 0) < (IF IsInf(b) THEN b.num ELSE 0)
     ELSE a.num * b.den < b.num * a.den

FEq(a, b) == ~IsNaN(a) /\ ~IsNaN(b) /\ a = b

\* f64::rem_euclid: r = a % b (truncated), then r + |b| when r < 0
FRemEuclid(a, b) ==
  IF IsNaN(a) \/ IsNaN(b) \/ IsInf(a) \/ b.num = 0 THEN NaN
  ELSE IF IsInf(b) THEN (IF a.num < 0 THEN SamFloat(1, 0) ELSE a)
  ELSE LET n == a.num * b.den
           d == Abs(b.num) * a.den
           m == n - d * (n \div d)
       IN Float(m, a.den * b.den)

\* a panic: the thread unwinds, no Value is produced
Panic(msg) == [m |-> "panic", msg |-> msg]

IsPanic(r) == "m" \in DOMAIN r

\* i64::MIN and i64::MAX
MinInt == -(2 ^ (IntBits - 1))

MaxInt == 2 ^ (IntBits - 1) - 1

\* two's-complement wrapping of an integer result into the i64 range
Wrap(x) == ((x - MinInt) % (2 ^ IntBits)) + MinInt

\* An i64 result of `what`: as computed when it fits; when it does not, a
\* panic in a build with overflow checks and the wrapped result in one without.
IntResult(overflow_checks, x, what) ==
  IF MinInt <= x /\ x <= MaxInt THEN SamInt(x)
  ELSE IF overflow_checks THEN Panic("attempt to " \o what \o " with overflow")
  ELSE SamInt(Wrap(x))

\* i64 % i64, truncating toward zero; i64::MIN % -1 panics in every build
IntRem(a, b) ==
  IF a = MinInt /\ b = -1 THEN Panic("attempt to calculate the remainder with overflow")
  ELSE LET r == Abs(a) % Abs(b) IN SamInt(IF a < 0 THEN -r ELSE r)

\* impl Add / Sub / Mul / Div / Rem for Number
number_add(overflow_checks, a, b) ==
  IF a.t = "SamInt" /\ b.t = "SamInt" THEN IntResult(overflow_checks, a.i + b.i, "add")
  ELSE FAdd(as_f64(a), as_f64(b))

number_sub(overflow_checks, a, b) ==
  IF a.t = "SamInt" /\ b.t = "SamInt"
  THEN IntResult(overflow_checks, a.i - b.i, "subtract")
  ELSE FAdd(as_f64(a), FNeg(as_f64(b)))

number_mul(overflow_checks, a, b) ==
  IF a.t = "SamInt" /\ b.t = "SamInt"
  THEN IntResult(overflow_checks, a.i * b.i, "multiply")
  ELSE FMul(as_f64(a), as_f64(b))

number_div(a, b) == FDiv(as_f64(a), as_f64(b))

number_rem(a, b) ==
  IF a.t = "SamInt" /\ b.t = "SamInt" THEN IntRem(a.i, b.i)
  ELSE FRemEuclid(as_f64(a), as_f64(b))

\* String + String, which value.rs as evaluate.rs uses it provides
string_add(a, b) == SamString(a.s \o b.s)

\* impl Add / Sub / Mul / Div / Rem for Value
value_add(overflow_checks, a, b) ==
  IF IsNumber(a) /\ IsNumber(b) THEN number_add(overflow_checks, a, b)
  ELSE IF a.t = "SamString" /\ b.t = "SamString" THEN string_add(a, b)
  ELSE Undefined

\* As value_sub, were Undefined taken for Int 0.
value_sub_coerced(overflow_checks, a, b) ==
  LET Coerce(v) == IF v.t = "Undefined" THEN SamInt(0) ELSE v
  IN IF IsNumber(Coerce(a)) /\ IsNumber(Coerce(b))
     THEN number_sub(overflow_checks, Coerce(a), Coerce(b))
     ELSE Undefined

value_sub(overflow_checks, a, b) ==
  IF IsNumber(a) /\ IsNumber(b) THEN number_sub(overflow_checks, a, b) ELSE Undefined

value_mul(overflow_checks, a, b) ==
  IF IsNumber(a) /\ IsNumber(b) THEN number_mul(overflow_checks, a, b) ELSE Undefined

value_div(a, b) == IF IsNumber(a) /\ IsNumber(b) THEN number_div(a, b) ELSE Undefined

value_rem(a, b) ==
  IF IsNumber(a) /\ IsNumber(b)
  THEN (IF as_f64(b).num = 0 /\ as_f64(b).den # 0 THEN Undefined ELSE number_rem(a, b))
  ELSE Undefined

\* String == String, which value.rs as evaluate.rs uses it provides
string_eq(a, b) == a.s = b.s

\* As value_eq, were Numbers compared without promotion.
value_eq_unpromoted(a, b) ==
  IF IsNumber(a) /\ IsNumber(b) THEN a.t = b.t /\ FEq(as_f64(a), as_f64(b))
  ELSE IF a.t = "Undefined" /\ b.t = "Undefined" THEN TRUE
  ELSE IF a.t = "SamString" /\ b.t = "SamString" THEN string_eq(a, b)
  ELSE FALSE

\* impl PartialEq for Value
value_eq(a, b) ==
  IF IsNumber(a) /\ IsNumber(b) THEN FEq(as_f64(a), as_f64(b))
  ELSE IF a.t = "Undefined" /\ b.t = "Undefined" THEN TRUE
  ELSE IF a.t = "SamString" /\ b.t = "SamString" THEN string_eq(a, b)
  ELSE FALSE

\* impl PartialOrd for Value: lt, and le = lt or equal; None compares false
value_lt(a, b) == IsNumber(a) /\ IsNumber(b) /\ FLess(as_f64(a), as_f64(b))

value_le(a, b) ==
  IsNumber(a) /\ IsNumber(b) /\ (FLess(as_f64(a), as_f64(b)) \/ FEq(as_f64(a), as_f64(b)))

\* impl From<bool> for Value
from_bool(b) == SamInt(IF b THEN 1 ELSE 0)

\* Value into bool: Int 0 is false, a nonzero Int is true
into_bool(v) == v.t = "SamInt" /\ v.i # 0

Operators == {"+", "-", "*", "/", "%", "<", ">", "==", "<=", ">=", "!=", "&&", "||"}

\* the match on op of evaluate_binary_expression: a Value, or a panic
apply_operator(overflow_checks, op, left, right) ==
  CASE op = "+" -> value_add(overflow_checks, left, right)
    [] op = "-" -> value_sub(overflow_checks, left, right)
    [] op = "*" -> value_mul(overflow_checks, left, right)
    [] op = "/" -> value_div(left, right)
    [] op = "%" -> value_rem(left, right)
    [] op = "<" -> from_bool(value_lt(left, right))
    [] op = ">" -> from_bool(value_lt(right, left))
    [] op = "==" -> from_bool(value_eq(left, right))
    [] op = "<=" -> from_bool(value_le(left, right))
    [] op = ">=" -> from_bool(value_le(right, left))
    [] op = "!=" -> from_bool(~value_eq(left, right))
    [] op = "&&" -> from_bool(into_bool(left) /\ into_bool(right))
    [] op = "||" -> from_bool(into_bool(left) \/ into_bool(right))

\* EvalControl::to_value: the value carried, whichever the signal
to_value(c) == c.v

\* Value::get_attr: the mapped value of an Object, or a failure
get_attr(v, key) ==
  IF v.t # "SamObject" THEN Err("not attributable")
  ELSE IF key \notin DOMAIN v.map THEN Err("unknown attribute")
  ELSE Ok("Value", v.map[key], "evaluate_nested_identifier")

(* ------------------------- the FFI / shell bridge ---------------------- *)

JNull == [j |-> "Null"]

JBool(b) == [j |-> "Bool", b |-> b]

JString(str) == [j |-> "String", str |-> str]

\* a JSON number as a fraction: integral when den = 1
JNumber(num, den) == [j |-> "Number", num |-> num, den |-> den]

JArray(arr) == [j |-> "Array", arr |-> arr]

JObject(obj) == [j |-> "Object", obj |-> obj]

\* What fs::read_to_string and serde_json::from_str make of a manifest file.
Unreadable == [file |-> "unreadable"]

NotJson == [file |-> "not json"]

JsonFile(json) == [file |-> "json", json |-> json]

Manifests ==
  {Unreadable, NotJson,
   JsonFile(JObject("bar" :> JString("echo 42"))),
   JsonFile(JObject("bar" :> JNumber(42, 1))),
   JsonFile(JObject("foo" :> JString("echo 42"))),
   JsonFile(JArray(<<JString("bar")>>))}

\* FFI::register_ffi: the scope stack afterwards, or the failure
register_ffi(manifest, name, cs) ==
  IF manifest.file = "unreadable" THEN [res |-> Err("reading manifest"), cs |-> cs]
  ELSE IF manifest.file = "not json" THEN [res |-> Err("parsing manifest"), cs |-> cs]
  ELSE IF \/ manifest.json.j # "Object"
          \/ name \notin DOMAIN manifest.json.obj
          \/ manifest.json.obj[name].j # "String"
       THEN [res |-> Err("Interface entry must be a string"), cs |-> cs]
  ELSE [res |-> Ok("Value", Undefined, "register_ffi"),
        cs |-> insert_current(cs, name, SamForeignFunction(manifest.json.obj[name].str))]

\* FFI::json_to_value
RECURSIVE json_to_value(_)
json_to_value(v) ==
  CASE v.j = "Null" -> Ok("Value", Undefined, "json_to_value")
    [] v.j = "Bool" -> Ok("Value", SamInt(IF v.b THEN 1 ELSE 0), "json_to_value")
    [] v.j = "String" -> Ok("Value", SamString(v.str), "json_to_value")
    [] v.j = "Array" -> Panic("not yet implemented")
    [] v.j = "Object" ->
         LET conv == [k \in DOMAIN v.obj |-> json_to_value(v.obj[k])]
         IN IF \E k \in DOMAIN conv : conv[k].m = "panic" THEN Panic("not yet implemented")
            ELSE IF \E k \in DOMAIN conv : conv[k].m = "Err"
                 THEN Err("Invalid JSON number encountered.")
            ELSE Ok("Value", SamObject([k \in DOMAIN conv |-> conv[k].v]), "json_to_value")
    [] v.j = "Number" ->
         Ok("Value", IF v.den = 1 THEN SamInt(v.num) ELSE Float(v.num, v.den),
            "json_to_value")

\* What running a process gives: no process at all, or its output.
SpawnFailed == [spawned |-> FALSE]

\* code is the exit code, <<>> when the process ended without one
Output(stdout, stderr, code) ==
  [spawned |-> TRUE, stdout |-> stdout, stderr |-> stderr, code |-> code]

\* stdout as serde_json::from_str reads it: a JSON value, or not JSON
ForeignRuns ==
  {SpawnFailed, Output(NotJson, "", <<0>>)}
    \cup {Output(JsonFile(j), "", <<0>>) :
            j \in {JNumber(42, 1), JString("42"), JNull, JBool(TRUE),
                   JObject("n" :> JNumber(1, 2)), JArray(<<JNumber(1, 1)>>)}}

ShellRuns ==
  {SpawnFailed, Output("42\n", "", <<0>>), Output("", "sh: failed", <<1>>),
   Output("", "", <<>>)}

\* FFI::call
ffi_call(run) ==
  IF ~run.spawned THEN Err("spawn failed")
  ELSE IF run.stdout.file # "json" THEN Err("parsing the output")
  ELSE json_to_value(run.stdout.json)

\* As shell_call, were a nonzero or missing exit code a failure.
shell_call_strict(run) ==
  IF ~run.spawned THEN Err("spawn failed")
  ELSE IF run.code # <<0>> THEN Err("command failed")
  ELSE Ok("Value",
          SamObject([k \in {"stdout", "stderr", "status"} |->
                       CASE k = "stdout" -> SamString(run.stdout)
                         [] k = "stderr" -> SamString(run.stderr)
                         [] k = "status" -> SamInt(0)]),
          "Shell::call")

\* Shell::call
shell_call(run) ==
  IF ~run.spawned THEN Err("spawn failed")
  ELSE Ok("Value",
          SamObject([k \in {"stdout", "stderr", "status"} |->
                       CASE k = "stdout" -> SamString(run.stdout)
                         [] k = "stderr" -> SamString(run.stderr)
                         [] k = "status" ->
                              SamInt(IF run.code = <<>> THEN -1 ELSE run.code[1])]),
          "Shell::call")

\* Context::global_scope
global_scope(cs) == cs[1]

(* ------------------------------ evaluate ------------------------------- *)

\* for child in children: the next top-level child, or Ok(ctx) after the last
NextChild ==
  IF pos < Len(source)
  THEN /\ pos' = pos + 1
       /\ ctl' = CallStatement(source[pos + 1])
       /\ status' = status
  ELSE /\ pos' = pos
       /\ ctl' = Idle
       /\ status' = "Ok"

\* children.next() is None: an empty source file
EvaluateEmpty ==
  /\ Running /\ pos = 0 /\ Len(source) = 0
  /\ status' = "Ok"
  /\ UNCHANGED <<source, pos, call_stack, kont, ctl>>

\* the first child is an interfaces block
EvaluateFirstInterfaces ==
  /\ Running /\ pos = 0 /\ Len(source) > 0 /\ source[1].kind = "interfaces"
  /\ pos' = 1
  /\ kont' = Push(Frame("evaluate_interfaces", "interface", source[1], 1, <<>>))
  /\ ctl' = Loop
  /\ UNCHANGED <<source, status, call_stack>>

\* the first child is evaluated as a statement
EvaluateFirstStatement ==
  /\ Running /\ pos = 0 /\ Len(source) > 0 /\ source[1].kind # "interfaces"
  /\ pos' = 1
  /\ ctl' = CallStatement(source[1])
  /\ UNCHANGED <<source, status, call_stack, kont>>

\* the first child is done: whatever it yielded is dropped
EvaluateFirstDone ==
  /\ Running /\ kont = <<>> /\ pos = 1 /\ ctl.m = "Ok"
  /\ NextChild
  /\ UNCHANGED <<source, call_stack, kont>>

\* a later child yields EvalControl::Value
EvaluateRestValue ==
  /\ Running /\ kont = <<>> /\ pos > 1 /\ ctl.m = "Ok" /\ ctl.sig = "Value"
  /\ NextChild
  /\ UNCHANGED <<source, call_stack, kont>>

\* a later child yields EvalControl::Return
EvaluateRestReturn ==
  /\ Running /\ kont = <<>> /\ pos > 1 /\ ctl.m = "Ok" /\ ctl.sig = "Return"
  /\ status' = "Err"
  /\ ctl' = Err("Return outside function")
  /\ UNCHANGED <<source, pos, call_stack, kont>>

\* a child fails: evaluate returns the error
EvaluateFail ==
  /\ Running /\ kont = <<>> /\ ctl.m = "Err"
  /\ status' = "Err"
  /\ UNCHANGED <<source, pos, call_stack, kont, ctl>>

\* a panic unwinds the whole run
Abort ==
  /\ Running /\ ctl.m = "panic"
  /\ status' = "panic"
  /\ UNCHANGED <<source, pos, call_stack, kont, ctl>>

\* an Err handed to a caller that uses `?`: the caller returns it
PropagateError ==
  /\ Running /\ kont # <<>> /\ ctl.m = "Err"
  /\ ~(Head(kont).fn = "evaluate_call_expression" /\ Head(kont).pc = "function")
  /\ kont' = Tail(kont)
  /\ UNCHANGED <<source, pos, status, call_stack, ctl>>

(* ----------------------------- interfaces ------------------------------ *)

\* evaluate_interface: register the next interface from its manifest
EvaluateInterface ==
  /\ At("evaluate_interfaces", "interface") /\ ctl.m = "loop"
  /\ Head(kont).idx <= Len(Head(kont).node.decls)
  /\ \E manifest \in Manifests :
       LET decl == Head(kont).node.decls[Head(kont).idx]
           r == register_ffi(manifest, decl.module, call_stack)
       IN /\ call_stack' = r.cs
          /\ IF r.res.m = "Err"
             THEN /\ ctl' = r.res
                  /\ kont' = kont
             ELSE /\ ctl' = Loop
                  /\ kont' = Replace([Head(kont) EXCEPT !.idx = @ + 1])
  /\ UNCHANGED <<source, pos, status>>

\* evaluate_interfaces: every interface is registered
EvaluateInterfacesDone ==
  /\ At("evaluate_interfaces", "interface") /\ ctl.m = "loop"
  /\ Head(kont).idx > Len(Head(kont).node.decls)
  /\ kont' = Tail(kont)
  /\ ctl' = Ok("Value", Undefined, "evaluate_interfaces")
  /\ UNCHANGED <<source, pos, status, call_stack>>

(* ----------------------------- statements ------------------------------ *)

Dispatch(kind) == Running /\ ctl.m = "evaluate_statement" /\ ctl.node.kind = kind

\* expression_statement: the expression's result, unchanged
StatementExpression ==
  /\ Dispatch("expression_statement")
  /\ ctl' = CallExpression(ctl.node.expr)
  /\ UNCHANGED <<source, pos, status, call_stack, kont>>

\* variable_declaration
StatementDeclaration ==
  /\ Dispatch("variable_declaration")
  /\ kont' = Push(Frame("evaluate_variable_declaration", "declarator", ctl.node, 1, <<>>))
  /\ ctl' = Loop
  /\ UNCHANGED <<source, pos, status, call_stack>>

\* evaluate_variable_declarator with an initializer: evaluate it
DeclaratorValue ==
  /\ At("evaluate_variable_declaration", "declarator") /\ ctl.m = "loop"
  /\ Head(kont).idx <= Len(Head(kont).node.declarators)
  /\ Head(kont).node.declarators[Head(kont).idx].value # NoNode
  /\ ctl' = CallExpression(Head(kont).node.declarators[Head(kont).idx].value)
  /\ UNCHANGED <<source, pos, status, call_stack, kont>>

\* evaluate_variable_declarator: bind the initializer's value in the current scope
DeclaratorBind ==
  /\ At("evaluate_variable_declaration", "declarator") /\ ctl.m = "Ok"
  /\ call_stack' =
       declare_current(call_stack, Head(kont).node.declarators[Head(kont).idx].variable,
                       TRUE, to_value(ctl))
  /\ kont' = Replace([Head(kont) EXCEPT !.idx = @ + 1])
  /\ ctl' = Loop
  /\ UNCHANGED <<source, pos, status>>

\* evaluate_variable_declarator without an initializer
DeclaratorBare ==
  /\ At("evaluate_variable_declaration", "declarator") /\ ctl.m = "loop"
  /\ Head(kont).idx <= Len(Head(kont).node.declarators)
  /\ Head(kont).node.declarators[Head(kont).idx].value = NoNode
  /\ call_stack' =
       declare_current(call_stack, Head(kont).node.declarators[Head(kont).idx].variable,
                       FALSE, Undefined)
  /\ kont' = Replace([Head(kont) EXCEPT !.idx = @ + 1])
  /\ ctl' = Loop
  /\ UNCHANGED <<source, pos, status>>

\* every declarator is done: the statement yields Undefined
DeclarationDone ==
  /\ At("evaluate_variable_declaration", "declarator") /\ ctl.m = "loop"
  /\ Head(kont).idx > Len(Head(kont).node.declarators)
  /\ kont' = Tail(kont)
  /\ ctl' = Ok("Value", Undefined, "evaluate_statement")
  /\ UNCHANGED <<source, pos, status, call_stack>>

\* assignment: the right-hand side first
StatementAssignment ==
  /\ Dispatch("assignment")
  /\ kont' = Push(Frame("evaluate_assignment", "rhs", ctl.node, 1, <<>>))
  /\ ctl' = CallExpression(ctl.node.rhs)
  /\ UNCHANGED <<source, pos, status, call_stack>>

\* As assign, were an unbound target declared in the current scope.
assign_declares(cs, lhs, rhs) ==
  LET i == search_in_stack(cs, lhs)
  IN [res |-> Ok("Value", rhs, "evaluate_assignment"),
      cs |-> IF i = 0 THEN insert_current(cs, lhs, rhs)
             ELSE [cs EXCEPT ![i] = [@ EXCEPT ![lhs] = rhs]]]

\* the store of evaluate_assignment
assign(cs, lhs, rhs) ==
  LET i == search_in_stack(cs, lhs)
  IN IF i = 0 THEN [res |-> Err("Assigning to undefined variable"), cs |-> cs]
     ELSE [res |-> Ok("Value", rhs, "evaluate_assignment"),
           cs |-> [cs EXCEPT ![i] = [@ EXCEPT ![lhs] = rhs]]]

\* evaluate_assignment: resolve the left-hand side and overwrite it
AssignmentStore ==
  /\ At("evaluate_assignment", "rhs") /\ ctl.m = "Ok"
  /\ LET r == assign(call_stack, Head(kont).node.lhs, to_value(ctl))
     IN /\ call_stack' = r.cs
        /\ ctl' = r.res
  /\ kont' = Tail(kont)
  /\ UNCHANGED <<source, pos, status>>

\* return_statement with a value expression
StatementReturn ==
  /\ Dispatch("return_statement") /\ ctl.node.value # NoNode
  /\ kont' = Push(Frame("evaluate_return_statement", "value", ctl.node, 1, <<>>))
  /\ ctl' = CallExpression(ctl.node.value)
  /\ UNCHANGED <<source, pos, status, call_stack>>

\* return_statement without a value
StatementReturnBare ==
  /\ Dispatch("return_statement") /\ ctl.node.value = NoNode
  /\ ctl' = Ok("Return", Undefined, "evaluate_return_statement")
  /\ UNCHANGED <<source, pos, status, call_stack, kont>>

\* evaluate_return_statement: the value becomes a Return signal
ReturnValue ==
  /\ At("evaluate_return_statement", "value") /\ ctl.m = "Ok"
  /\ kont' = Tail(kont)
  /\ ctl' = Ok("Return", to_value(ctl), "evaluate_return_statement")
  /\ UNCHANGED <<source, pos, status, call_stack>>

StatementKinds ==
  {"expression_statement", "variable_declaration", "assignment", "return_statement"}

\* any other node kind where a statement is expected
StatementUnknown ==
  /\ Running /\ ctl.m = "evaluate_statement" /\ ctl.node.kind \notin StatementKinds
  /\ ctl' = Err("Unknown statement")
  /\ UNCHANGED <<source, pos, status, call_stack, kont>>

(* ----------------------------- expressions ----------------------------- *)

Eval(kind) == Running /\ ctl.m = "evaluate_expression" /\ ctl.node.kind = kind

\* literal
ExpressionLiteral ==
  /\ Eval("literal")
  /\ ctl' = Ok("Value", ctl.node.val, "evaluate_expression")
  /\ UNCHANGED <<source, pos, status, call_stack, kont>>

\* As lookup, were an unbound name read as Undefined.
lookup_lenient(cs, name) ==
  IF search_in_stack(cs, name) = 0 THEN Ok("Value", Undefined, "evaluate_expression")
  ELSE Ok("Value", cs[search_in_stack(cs, name)][name], "evaluate_expression")

\* the identifier arm of evaluate_expression
lookup(cs, name) ==
  IF search_in_stack(cs, name) = 0 THEN Err("Variable not defined")
  ELSE Ok("Value", cs[search_in_stack(cs, name)][name], "evaluate_expression")

\* identifier
ExpressionIdentifier ==
  /\ Eval("identifier")
  /\ ctl' = lookup(call_stack, ctl.node.name)
  /\ UNCHANGED <<source, pos, status, call_stack, kont>>

\* As ExpressionLambda, were the body run where the lambda is written.
ExpressionLambdaEager ==
  /\ Eval("lambda_expression")
  /\ ctl' = CallBlock(descendant_for_byte_range(ctl.node.body), <<>>)
  /\ UNCHANGED <<source, pos, status, call_stack, kont>>

\* evaluate_lambda_expression: the body's byte range and the parameter names
ExpressionLambda ==
  /\ Eval("lambda_expression")
  /\ ctl' = Ok("Value", SamFunction(ctl.node.body, ctl.node.parameters),
               "evaluate_expression")
  /\ UNCHANGED <<source, pos, status, call_stack, kont>>

\* evaluate_binary_expression: the left operand first
ExpressionBinary ==
  /\ Eval("binary_expression")
  /\ kont' = Push(Frame("evaluate_binary_expression", "left", ctl.node, 1, <<>>))
  /\ ctl' = CallExpression(ctl.node.left)
  /\ UNCHANGED <<source, pos, status, call_stack>>

\* As BinaryLeft, were `&&` and `||` decided by the left operand where it
\* settles the result, the right operand left unevaluated.
BinaryLeftShortCircuit ==
  /\ At("evaluate_binary_expression", "left") /\ ctl.m = "Ok"
  /\ IF \/ Head(kont).node.op = "&&" /\ ~into_bool(to_value(ctl))
        \/ Head(kont).node.op = "||" /\ into_bool(to_value(ctl))
     THEN /\ kont' = Tail(kont)
          /\ ctl' = Ok("Value", from_bool(into_bool(to_value(ctl))),
                       "evaluate_expression")
     ELSE /\ kont' = Replace([Head(kont) EXCEPT !.pc = "right",
                                                !.vals = <<to_value(ctl)>>])
          /\ ctl' = CallExpression(Head(kont).node.right)
  /\ UNCHANGED <<source, pos, status, call_stack>>

\* the left operand is a value: now the right operand
BinaryLeft ==
  /\ At("evaluate_binary_expression", "left") /\ ctl.m = "Ok"
  /\ kont' = Replace([Head(kont) EXCEPT !.pc = "right", !.vals = <<to_value(ctl)>>])
  /\ ctl' = CallExpression(Head(kont).node.right)
  /\ UNCHANGED <<source, pos, status, call_stack>>

\* both operands are values: apply the operator, in a build with or without
\* overflow checks
BinaryRight ==
  /\ At("evaluate_binary_expression", "right") /\ ctl.m = "Ok"
  /\ kont' = Tail(kont)
  /\ \E overflow_checks \in BOOLEAN :
       LET r == apply_operator(overflow_checks, Head(kont).node.op, Head(kont).vals[1],
                               to_value(ctl))
       IN ctl' = IF Head(kont).node.op \notin Operators THEN Err("Unknown operator")
                 ELSE IF IsPanic(r) THEN r
                 ELSE Ok("Value", r, "evaluate_expression")
  /\ UNCHANGED <<source, pos, status, call_stack>>

\* evaluate_if_expression: the condition first
ExpressionIf ==
  /\ Eval("if_expression")
  /\ kont' = Push(Frame("evaluate_if_expression", "condition", ctl.node, 1, <<>>))
  /\ ctl' = CallExpression(ctl.node.condition)
  /\ UNCHANGED <<source, pos, status, call_stack>>

\* As IfConditionInvalid, were a condition that is no Int taken for false.
IfConditionCoerced ==
  /\ At("evaluate_if_expression", "condition") /\ ctl.m = "Ok"
  /\ to_value(ctl).t # "SamInt"
  /\ kont' = Tail(kont)
  /\ ctl' = Ok("Value", Undefined, "evaluate_if_expression")
  /\ UNCHANGED <<source, pos, status, call_stack>>

\* the condition is not an Int
IfConditionInvalid ==
  /\ At("evaluate_if_expression", "condition") /\ ctl.m = "Ok"
  /\ to_value(ctl).t # "SamInt"
  /\ kont' = Tail(kont)
  /\ ctl' = Err("Condition must be integer")
  /\ UNCHANGED <<source, pos, status, call_stack>>

\* c != 0: the consequence block
IfConsequence ==
  /\ At("evaluate_if_expression", "condition") /\ ctl.m = "Ok"
  /\ to_value(ctl).t = "SamInt" /\ to_value(ctl).i # 0
  /\ kont' = Replace([Head(kont) EXCEPT !.pc = "arm"])
  /\ ctl' = CallBlock(Head(kont).node.consequence, <<>>)
  /\ UNCHANGED <<source, pos, status, call_stack>>

\* c = 0 and the else arm is a statement block
IfElseBlock ==
  /\ At("evaluate_if_expression", "condition") /\ ctl.m = "Ok"
  /\ to_value(ctl).t = "SamInt" /\ to_value(ctl).i = 0
  /\ Head(kont).node.else.kind = "statement_block"
  /\ kont' = Replace([Head(kont) EXCEPT !.pc = "arm"])
  /\ ctl' = CallBlock(Head(kont).node.else, <<>>)
  /\ UNCHANGED <<source, pos, status, call_stack>>

\* c = 0 and the else arm is another if_expression
IfElseIf ==
  /\ At("evaluate_if_expression", "condition") /\ ctl.m = "Ok"
  /\ to_value(ctl).t = "SamInt" /\ to_value(ctl).i = 0
  /\ Head(kont).node.else.kind = "if_expression"
  /\ kont' = Replace(Frame("evaluate_if_expression", "condition", Head(kont).node.else,
                           1, <<>>))
  /\ ctl' = CallExpression(Head(kont).node.else.condition)
  /\ UNCHANGED <<source, pos, status, call_stack>>

\* c = 0 and there is no else arm
IfNoElse ==
  /\ At("evaluate_if_expression", "condition") /\ ctl.m = "Ok"
  /\ to_value(ctl).t = "SamInt" /\ to_value(ctl).i = 0
  /\ Head(kont).node.else = NoNode
  /\ kont' = Tail(kont)
  /\ ctl' = Ok("Value", Undefined, "evaluate_if_expression")
  /\ UNCHANGED <<source, pos, status, call_stack>>

\* the chosen arm's block is done: its signal is the if_expression's
IfArmDone ==
  /\ At("evaluate_if_expression", "arm") /\ ctl.m = "Ok"
  /\ kont' = Tail(kont)
  /\ ctl' = [ctl EXCEPT !.from = "evaluate_if_expression"]
  /\ UNCHANGED <<source, pos, status, call_stack>>

\* evaluate_nested_identifier: the parent first
ExpressionNested ==
  /\ Eval("nested_identifier")
  /\ kont' = Push(Frame("evaluate_nested_identifier", "parent", ctl.node, 1, <<>>))
  /\ ctl' = CallExpression(ctl.node.parent)
  /\ UNCHANGED <<source, pos, status, call_stack>>

\* the attribute of the parent's value
NestedAttribute ==
  /\ At("evaluate_nested_identifier", "parent") /\ ctl.m = "Ok"
  /\ kont' = Tail(kont)
  /\ ctl' = get_attr(to_value(ctl), Head(kont).node.name)
  /\ UNCHANGED <<source, pos, status, call_stack>>

\* evaluate_array_expression
ExpressionArray ==
  /\ Eval("array_expression")
  /\ kont' = Push(Frame("evaluate_array_expression", "item", ctl.node, 1, <<>>))
  /\ ctl' = Loop
  /\ UNCHANGED <<source, pos, status, call_stack>>

\* the next item of the array
ArrayItem ==
  /\ At("evaluate_array_expression", "item") /\ ctl.m = "loop"
  /\ Head(kont).idx <= Len(Head(kont).node.items)
  /\ ctl' = CallExpression(Head(kont).node.items[Head(kont).idx])
  /\ UNCHANGED <<source, pos, status, call_stack, kont>>

\* an item is a value: push it
ArrayItemValue ==
  /\ At("evaluate_array_expression", "item") /\ ctl.m = "Ok" /\ ctl.sig = "Value"
  /\ kont' = Replace([Head(kont) EXCEPT !.idx = @ + 1, !.vals = Append(@, ctl.v)])
  /\ ctl' = Loop
  /\ UNCHANGED <<source, pos, status, call_stack>>

\* an item is a Return signal
ArrayItemReturn ==
  /\ At("evaluate_array_expression", "item") /\ ctl.m = "Ok" /\ ctl.sig = "Return"
  /\ kont' = Tail(kont)
  /\ ctl' = Err("Unexpected return statement")
  /\ UNCHANGED <<source, pos, status, call_stack>>

\* every item is pushed
ArrayDone ==
  /\ At("evaluate_array_expression", "item") /\ ctl.m = "loop"
  /\ Head(kont).idx > Len(Head(kont).node.items)
  /\ kont' = Tail(kont)
  /\ ctl' = Ok("Value", SamArray(Head(kont).vals), "evaluate_expression")
  /\ UNCHANGED <<source, pos, status, call_stack>>

ExpressionKinds ==
  {"literal", "binary_expression", "if_expression", "lambda_expression",
   "call_expression", "identifier", "nested_identifier", "array_expression"}

\* any other node kind where an expression is expected
ExpressionUnknown ==
  /\ Running /\ ctl.m = "evaluate_expression" /\ ctl.node.kind \notin ExpressionKinds
  /\ ctl' = Err("Unknown expression")
  /\ UNCHANGED <<source, pos, status, call_stack, kont>>

(* -------------------------------- calls -------------------------------- *)

\* evaluate_call_expression: Function::extract_args comes first
ExpressionCall ==
  /\ Eval("call_expression")
  /\ kont' = Push([Frame("evaluate_call_expression", "arguments", ctl.node, 1, <<>>)
                     EXCEPT !.callee = IF ctl.node.function.kind = "identifier"
                                       THEN lookup(call_stack, ctl.node.function.name)
                                       ELSE Err("not an identifier")])
  /\ ctl' = Loop
  /\ UNCHANGED <<source, pos, status, call_stack>>

\* extract_args: the next argument expression
CallArgument ==
  /\ At("evaluate_call_expression", "arguments") /\ ctl.m = "loop"
  /\ Head(kont).idx <= Len(Head(kont).node.arguments)
  /\ ctl' = CallExpression(Head(kont).node.arguments[Head(kont).idx])
  /\ UNCHANGED <<source, pos, status, call_stack, kont>>

\* extract_args: the argument is a value
CallArgumentValue ==
  /\ At("evaluate_call_expression", "arguments") /\ ctl.m = "Ok" /\ ctl.sig = "Value"
  /\ kont' = Replace([Head(kont) EXCEPT !.idx = @ + 1, !.vals = Append(@, ctl.v)])
  /\ ctl' = Loop
  /\ UNCHANGED <<source, pos, status, call_stack>>

\* extract_args: the argument is a Return signal
CallArgumentReturn ==
  /\ At("evaluate_call_expression", "arguments") /\ ctl.m = "Ok" /\ ctl.sig = "Return"
  /\ kont' = Tail(kont)
  /\ ctl' = Err("Unexpected return expression")
  /\ UNCHANGED <<source, pos, status, call_stack>>

\* As args_done, were the last argument left out.
args_done_early(idx, arguments) == idx >= Len(arguments)

\* extract_args is done when every argument is evaluated
args_done(idx, arguments) == idx > Len(arguments)

\* the arguments are evaluated: now the function-position expression
CallFunction ==
  /\ At("evaluate_call_expression", "arguments") /\ ctl.m = "loop"
  /\ args_done(Head(kont).idx, Head(kont).node.arguments)
  /\ kont' = Replace([Head(kont) EXCEPT !.pc = "function"])
  /\ ctl' = CallExpression(Head(kont).node.function)
  /\ UNCHANGED <<source, pos, status, call_stack>>

\* if let Ok(EvalControl::Value(Value::SamFunction(func)))
IsFunction(c) == c.m = "Ok" /\ c.sig = "Value" /\ c.v.t = "SamFunction"

\* As arity_mismatch, were only missing arguments refused.
arity_fewer(args, params) == Len(args) < Len(params)

\* args.len() != func.params.len()
arity_mismatch(args, params) == Len(args) # Len(params)

\* As invoked_function, were the function position resolved before the arguments.
invoked_early(frame, c) == IF IsFunction(frame.callee) THEN frame.callee.v ELSE c.v

\* func: what the function position evaluates to, once the arguments are evaluated
invoked_function(frame, c) == c.v

\* a user Function with the wrong number of arguments
CallArityMismatch ==
  /\ At("evaluate_call_expression", "function") /\ IsFunction(ctl)
  /\ arity_mismatch(Head(kont).vals, invoked_function(Head(kont), ctl).params)
  /\ kont' = Tail(kont)
  /\ ctl' = Err("Argument count mismatch")
  /\ UNCHANGED <<source, pos, status, call_stack>>

\* a user Function: its body block, with the parameters bound to the arguments
CallUserFunction ==
  /\ At("evaluate_call_expression", "function") /\ IsFunction(ctl)
  /\ ~arity_mismatch(Head(kont).vals, invoked_function(Head(kont), ctl).params)
  /\ kont' = Replace([Head(kont) EXCEPT !.pc = "body",
                                         !.vals = <<invoked_function(Head(kont), ctl)>>])
  /\ ctl' = CallBlock(descendant_for_byte_range(invoked_function(Head(kont), ctl).body),
                      zip(invoked_function(Head(kont), ctl).params, Head(kont).vals))
  /\ UNCHANGED <<source, pos, status, call_stack>>

\* the body block is done: its signal is the call's result
CallReturn ==
  /\ At("evaluate_call_expression", "body") /\ ctl.m = "Ok"
  /\ kont' = Tail(kont)
  /\ ctl' = [ctl EXCEPT !.from = "evaluate_call_expression"]
  /\ UNCHANGED <<source, pos, status, call_stack>>

\* The function position gave no Function (a failure there is dropped).
NoFunction == At("evaluate_call_expression", "function") /\ ctl.m \in {"Ok", "Err"}
                /\ ~IsFunction(ctl)

\* shell fallback on something that is no identifier
CallInvalidCommand ==
  /\ NoFunction
  /\ Head(kont).node.function.kind # "identifier"
  /\ kont' = Tail(kont)
  /\ ctl' = Err("Invalid shell command")
  /\ UNCHANGED <<source, pos, status, call_stack>>

\* As IsForeign, were the name resolved through every frame as a variable is.
IsForeignAnywhere(cs, name) ==
  /\ search_in_stack(cs, name) # 0
  /\ cs[search_in_stack(cs, name)][name].t = "SamForeignFunction"

\* ctx.global_scope().get(&command_name) is a ForeignFunction
IsForeign(cs, name) ==
  name \in DOMAIN global_scope(cs) /\ global_scope(cs)[name].t = "SamForeignFunction"

\* a ForeignFunction of the global scope: FFI::call
CallForeign ==
  /\ NoFunction
  /\ Head(kont).node.function.kind = "identifier"
  /\ IsForeign(call_stack, Head(kont).node.function.name)
  /\ kont' = Tail(kont)
  /\ \E run \in ForeignRuns : ctl' = ffi_call(run)
  /\ UNCHANGED <<source, pos, status, call_stack>>

\* anything else: Shell::call on the name
CallShell ==
  /\ NoFunction
  /\ Head(kont).node.function.kind = "identifier"
  /\ ~IsForeign(call_stack, Head(kont).node.function.name)
  /\ kont' = Tail(kont)
  /\ \E run \in ShellRuns : ctl' = shell_call(run)
  /\ UNCHANGED <<source, pos, status, call_stack>>

(* --------------------------- statement blocks -------------------------- *)

\* evaluate_statement_block: a new scope, seeded with the bindings
BlockEnter ==
  /\ Running /\ ctl.m = "evaluate_statement_block"
  /\ depth(call_stack) < MaxDepth
  /\ kont' = Push(Frame("evaluate_statement_block", "statement", ctl.node, 1, <<>>))
  /\ call_stack' = insert_bindings(init_scope(call_stack), ctl.bindings)
  /\ ctl' = Loop
  /\ UNCHANGED <<source, pos, status>>

\* the next statement of the block
BlockStatement ==
  /\ At("evaluate_statement_block", "statement") /\ ctl.m = "loop"
  /\ Head(kont).idx <= Len(Head(kont).node.stmts)
  /\ ctl' = CallStatement(Head(kont).node.stmts[Head(kont).idx])
  /\ UNCHANGED <<source, pos, status, call_stack, kont>>

\* the statement yields EvalControl::Value: go on
BlockStatementValue ==
  /\ At("evaluate_statement_block", "statement") /\ ctl.m = "Ok" /\ ctl.sig = "Value"
  /\ kont' = Replace([Head(kont) EXCEPT !.idx = @ + 1])
  /\ ctl' = Loop
  /\ UNCHANGED <<source, pos, status, call_stack>>

\* As BlockStatementReturn, were a Return signal taken for a Value.
BlockStatementReturnIgnored ==
  /\ At("evaluate_statement_block", "statement") /\ ctl.m = "Ok" /\ ctl.sig = "Return"
  /\ kont' = Replace([Head(kont) EXCEPT !.idx = @ + 1])
  /\ ctl' = Loop
  /\ UNCHANGED <<source, pos, status, call_stack>>

\* the statement yields EvalControl::Return: leave the block with it
BlockStatementReturn ==
  /\ At("evaluate_statement_block", "statement") /\ ctl.m = "Ok" /\ ctl.sig = "Return"
  /\ call_stack' = destroy_scope(call_stack)
  /\ kont' = Tail(kont)
  /\ ctl' = Ok("Return", ctl.v, "evaluate_statement_block")
  /\ UNCHANGED <<source, pos, status>>

\* past the last statement: the block yields Undefined
BlockDone ==
  /\ At("evaluate_statement_block", "statement") /\ ctl.m = "loop"
  /\ Head(kont).idx > Len(Head(kont).node.stmts)
  /\ call_stack' = destroy_scope(call_stack)
  /\ kont' = Tail(kont)
  /\ ctl' = Ok("Value", Undefined, "evaluate_statement_block")
  /\ UNCHANGED <<source, pos, status>>

(* ---------------------------- specification ---------------------------- *)

Next ==
  \/ EvaluateEmpty \/ EvaluateFirstInterfaces \/ EvaluateFirstStatement
  \/ EvaluateFirstDone \/ EvaluateRestValue \/ EvaluateRestReturn \/ EvaluateFail
  \/ Abort \/ PropagateError
  \/ EvaluateInterface \/ EvaluateInterfacesDone
  \/ StatementExpression \/ StatementDeclaration \/ DeclaratorValue \/ DeclaratorBind
  \/ DeclaratorBare \/ DeclarationDone \/ StatementAssignment \/ AssignmentStore
  \/ StatementReturn \/ StatementReturnBare \/ ReturnValue \/ StatementUnknown
  \/ ExpressionLiteral \/ ExpressionIdentifier \/ ExpressionLambda
  \/ ExpressionBinary \/ BinaryLeft \/ BinaryRight
  \/ ExpressionIf \/ IfConditionInvalid \/ IfConsequence \/ IfElseBlock \/ IfElseIf
  \/ IfNoElse \/ IfArmDone
  \/ ExpressionNested \/ NestedAttribute
  \/ ExpressionArray \/ ArrayItem \/ ArrayItemValue \/ ArrayItemReturn \/ ArrayDone
  \/ ExpressionUnknown
  \/ ExpressionCall \/ CallArgument \/ CallArgumentValue \/ CallArgumentReturn
  \/ CallFunction \/ CallArityMismatch \/ CallUserFunction \/ CallReturn
  \/ CallInvalidCommand \/ CallForeign \/ CallShell
  \/ BlockEnter \/ BlockStatement \/ BlockStatementValue \/ BlockStatementReturn
  \/ BlockDone

Spec == Init /\ [][Next]_vars

(* ------------------- evaluate_expression on one operator ---------------- *)

\* Values of every kind for the two operands, the Ints at and around the
\* ends of the i64 range among them.
OperandValues ==
  {Undefined, SamInt(MinInt), SamInt(-1), SamInt(0), SamInt(1), SamInt(3),
   SamInt(MaxInt), SamFloat(0, 1), SamFloat(3, 1), SamFloat(-1, 2), SamFloat(1, 0),
   NaN, SamString("a"), SamString("hello"), SamString(" world"),
   SamFunction("f", <<>>), SamArray(<<>>), SamObject([status |-> SamInt(0)]),
   SamForeignFunction("echo 42")}

\* l op r
BinaryOf(op) == Bin(Id("l"), op, Id("r"))

\* evaluate_expression is called on `l op r` with a context whose global
\* frame binds l and r
BinaryInit ==
  /\ \E op \in Operators, l \in OperandValues, r \in OperandValues :
       /\ source = <<ExprStmt(BinaryOf(op))>>
       /\ call_stack = <<("l" :> l) @@ ("r" :> r)>>
       /\ ctl = CallExpression(BinaryOf(op))
  /\ pos = 1
  /\ status = "running"
  /\ kont = <<>>

BinaryNext ==
  \/ ExpressionBinary \/ ExpressionIdentifier \/ BinaryLeft \/ BinaryRight \/ Abort

BinarySpec == BinaryInit /\ [][BinaryNext]_vars

(* ------------------ FFI::register_ffi on a given context ---------------- *)

\* Frames a context may hold when register_ffi is handed it.
RegisterScopes ==
  {EmptyScope, [x |-> SamInt(5)], [bar |-> SamInt(1)],
   [bar |-> SamForeignFunction("old")]}

\* FFI::register_ffi(path, name, ctx)
CallRegister(path, name) == [m |-> "register_ffi", path |-> path, name |-> name]

\* register_ffi is called with a context of any depth: Context::new, then
\* any number of init_scope and declarations
RegisterInit ==
  /\ \E n \in 1..MaxDepth : call_stack \in [1..n -> RegisterScopes]
  /\ \E name \in {"bar", "foo"} : ctl = CallRegister("/tmp/foo.json", name)
  /\ source = <<>>
  /\ pos = 0
  /\ status = "running"
  /\ kont = <<>>

\* the call runs on whatever the manifest file holds
Register ==
  /\ Running /\ ctl.m = "register_ffi"
  /\ \E manifest \in Manifests :
       LET r == register_ffi(manifest, ctl.name, call_stack)
       IN /\ call_stack' = r.cs
          /\ ctl' = r.res
  /\ UNCHANGED <<source, pos, status, kont>>

RegisterSpec == RegisterInit /\ [][Register]_vars

(* ------------------------------- claims -------------------------------- *)

\* Frames of the scope stack that bind name x.
Binding(cs, x) == {i \in 1..Len(cs) : x \in DOMAIN cs[i]}

\* The topmost frame that binds x.
Topmost(cs, x) == CHOOSE i \in Binding(cs, x) : \A j \in Binding(cs, x) : j <= i

\* The global frame's bindings when evaluate has returned Ok(ctx) for program p.
Result(p, scope) == status = "Ok" /\ source = p /\ call_stack = <<scope>>

\* C1: evaluating a call_expression whose callee is a user Function yields a
\* plain Value (the returned value, or Undefined), never a Return signal.
C1_CallYieldsPlainValue ==
  (Running /\ ctl.m = "Ok" /\ ctl.from = "evaluate_call_expression")
    => ctl.sig = "Value"

\* C2: whenever a top-level statement, the first one included, yields a
\* Return signal, evaluate fails.
C2_TopLevelReturnFails ==
  [][(Running /\ kont = <<>> /\ ctl.m = "Ok" /\ ctl.sig = "Return")
       => status' = "Err"]_vars

\* C3: on every path out of evaluate_statement_block (fall-through, Return,
\* or an error of one of its statements) the scope-stack depth is again the
\* depth the block was entered at.
C3_BlockRestoresDepth ==
  [][(/\ Running /\ kont # <<>>
      /\ Head(kont).fn = "evaluate_statement_block"
      /\ Len(kont') < Len(kont))
       => depth(call_stack') = Head(kont).entry]_vars

\* C4: a declaration writes the top frame only, and a binding of x in a frame
\* below a live frame that also binds x keeps its value through every step:
\* an enclosing binding comes out of a block that shadows it as it went in.
C4_ShadowingIsolated ==
  [][/\ (Running /\ kont # <<>> /\ Head(kont).fn = "evaluate_variable_declaration")
          => /\ Len(call_stack') = Len(call_stack)
             /\ \A i \in 1..(Len(call_stack) - 1) : call_stack'[i] = call_stack[i]
     /\ \A i \in 1..Len(call_stack) : \A x \in DOMAIN call_stack[i] :
          (\E j \in (i + 1)..Len(call_stack) : x \in DOMAIN call_stack[j])
            => /\ i <= Len(call_stack')
               /\ x \in DOMAIN call_stack'[i]
               /\ call_stack'[i][x] = call_stack[i][x]]_vars

\* let x = 5; if (x == 5) { let x = 1; x = x + 1; };  leaves the global x at 5
C4_Witness == Result(<<LetX, IfShadow>>, [x |-> SamInt(5)])

\* C5: a successful assignment overwrites the binding of x in the topmost
\* frame that holds x, changes no other binding and no frame's names, keeps
\* the depth, and yields the assigned value as a plain Value.
C5_AssignmentOverwritesNearest ==
  [][(/\ At("evaluate_assignment", "rhs") /\ ctl.m = "Ok"
      /\ Binding(call_stack, Head(kont).node.lhs) # {})
       => LET x == Head(kont).node.lhs
              top == Topmost(call_stack, x)
          IN /\ ctl'.m = "Ok" /\ ctl'.sig = "Value" /\ ctl'.v = ctl.v
             /\ Len(call_stack') = Len(call_stack)
             /\ \A i \in 1..Len(call_stack) :
                  /\ DOMAIN call_stack'[i] = DOMAIN call_stack[i]
                  /\ \A y \in DOMAIN call_stack[i] :
                       call_stack'[i][y] =
                         IF i = top /\ y = x THEN ctl.v ELSE call_stack[i][y]]_vars

\* let x = 5; x = x + 1;  leaves the global x at 6
C5_Witness == Result(<<LetX, IncX>>, [x |-> SamInt(6)])

\* C6: evaluating an identifier that no live frame binds fails with the
\* unbound-variable error, also when a frame popped earlier bound it.
C6_UnboundIdentifierFails ==
  [][(/\ Running /\ ctl.m = "evaluate_expression" /\ ctl.node.kind = "identifier"
      /\ Binding(call_stack, ctl.node.name) = {})
       => /\ ctl' = Err("Variable not defined")
          /\ UNCHANGED <<call_stack, kont>>]_vars

\* if (0) { } else if (0) { } else { let y = 2, w; }; let b = y;  fails on y
C6_Witness ==
  /\ source = <<IfElse, LetBY>>
  /\ status = "Err"
  /\ ctl = Err("Variable not defined")
  /\ call_stack = <<EmptyScope>>

\* C7: an assignment to a name no live frame binds fails with the
\* undefined-assignment error and leaves every frame as it was.
C7_UnboundAssignmentFails ==
  [][(/\ At("evaluate_assignment", "rhs") /\ ctl.m = "Ok"
      /\ Binding(call_stack, Head(kont).node.lhs) = {})
       => /\ ctl' = Err("Assigning to undefined variable")
          /\ call_stack' = call_stack]_vars

\* if (1) { let y = 2; z = y; };  fails, and no frame binds z
C7_Witness ==
  /\ source = <<IfAssignUndefined>>
  /\ status = "Err"
  /\ ctl = Err("Assigning to undefined variable")
  /\ Binding(call_stack, "z") = {}

\* C8: a call of a user Function with fewer or more arguments than parameters
\* fails with the arity error: no frame is pushed and the body is not entered.
C8_ArityMismatchFails ==
  [][(/\ At("evaluate_call_expression", "function") /\ IsFunction(ctl)
      /\ Len(Head(kont).vals) # Len(ctl.v.params))
       => /\ ctl' = Err("Argument count mismatch")
          /\ call_stack' = call_stack
          /\ kont' = Tail(kont)]_vars

\* let a = (x, y) => { return x + 5; }, b = a(4, 3, 2);  fails, only a is bound
C8_Witness ==
  /\ source = <<CallA3>>
  /\ status = "Err"
  /\ ctl = Err("Argument count mismatch")
  /\ call_stack = <<[a |-> SamFunction("a", <<"x", "y">>)]>>

\* C9: a block evaluates its statements in order; at the first Return signal
\* it stops, pops its frame and hands the same signal on, as does every
\* if_expression for its arm's signal; with no Return it yields Undefined.
C9_ReturnStopsBlock ==
  [][/\ (At("evaluate_statement_block", "statement") /\ ctl.m = "Ok"
           /\ ctl.sig = "Return")
          => /\ kont' = Tail(kont)
             /\ ctl'.m = "Ok" /\ ctl'.sig = "Return" /\ ctl'.v = ctl.v
             /\ call_stack' = SubSeq(call_stack, 1, Len(call_stack) - 1)
     /\ (At("evaluate_statement_block", "statement") /\ ctl.m = "Ok"
           /\ ctl.sig = "Value")
          => /\ kont' = <<[Head(kont) EXCEPT !.idx = @ + 1]>> \o Tail(kont)
             /\ call_stack' = call_stack
     /\ (At("evaluate_statement_block", "statement") /\ ctl.m = "loop")
          => IF Head(kont).idx <= Len(Head(kont).node.stmts)
             THEN ctl' = CallStatement(Head(kont).node.stmts[Head(kont).idx])
             ELSE /\ kont' = Tail(kont)
                  /\ ctl'.m = "Ok" /\ ctl'.sig = "Value" /\ ctl'.v = Undefined
     /\ (At("evaluate_if_expression", "arm") /\ ctl.m = "Ok")
          => /\ kont' = Tail(kont)
             /\ ctl'.m = "Ok" /\ ctl'.sig = ctl.sig /\ ctl'.v = ctl.v
             /\ call_stack' = call_stack]_vars

\* let x = 5; let h = () => { if (0) { x = 1; }; if (4 == 4) { return 3 }; x = 9; },
\* b = h();  gives b = 3 and leaves x at 5
C9_Witness ==
  Result(<<LetX, LetH>>,
         [x |-> SamInt(5), h |-> SamFunction("h", <<>>), b |-> SamInt(3)])

\* C10 as stated: the Function whose body runs is the value the function
\* position had when the call_expression was entered, before any argument.
C10_CalleeResolvedFirst ==
  \A n \in 1..Len(kont) :
    (kont[n].fn = "evaluate_call_expression" /\ kont[n].pc = "body"
       /\ IsFunction(kont[n].callee))
      => kont[n].vals[1] = kont[n].callee.v

\* C10 amended: the arguments are evaluated first, left to right, and the
\* function position after them; the Function whose body runs is the value
\* the function position has once every argument is evaluated.
C10_CalleeResolvedLast ==
  /\ [](\A n \in 1..Len(kont) :
          kont[n].fn = "evaluate_call_expression"
            => CASE kont[n].pc = "arguments" ->
                      /\ kont[n].idx = Len(kont[n].vals) + 1
                      /\ kont[n].idx <= Len(kont[n].node.arguments) + 1
                 [] kont[n].pc = "function" ->
                      Len(kont[n].vals) = Len(kont[n].node.arguments)
                 [] OTHER -> TRUE)
  /\ [][(/\ At("evaluate_call_expression", "function") /\ IsFunction(ctl)
         /\ Len(Head(kont).vals) = Len(ctl.v.params))
          => /\ ctl'.m = "evaluate_statement_block"
             /\ ctl'.node = descendant_for_byte_range(ctl.v.body)
             /\ Head(kont').vals = <<ctl.v>>]_vars

\* let c = (p) => { return 1; }, k = (p) => { return 2; }, m = () => { c = k; };
\* let b = c(m());  runs the body of k: b = 2
C10_Witness ==
  /\ status = "Ok"
  /\ source = <<LetCKM, CallCM>>
  /\ call_stack[1]["b"] = SamInt(2)

\* C11: a declarator binds its name in the top frame to the initializer's
\* value, or to Undefined when it has none, whatever the name was bound to
\* before; it touches no other frame and no other name; and a finished
\* declaration statement yields plain Undefined.
C11_DeclaratorOverwrites ==
  [][/\ (/\ At("evaluate_variable_declaration", "declarator")
          /\ \/ ctl.m = "Ok"
             \/ /\ ctl.m = "loop"
                /\ Head(kont).idx <= Len(Head(kont).node.declarators)
                /\ Head(kont).node.declarators[Head(kont).idx].value = NoNode)
          => LET x == Head(kont).node.declarators[Head(kont).idx].variable
                 top == Len(call_stack)
             IN /\ Len(call_stack') = top
                /\ \A i \in 1..(top - 1) : call_stack'[i] = call_stack[i]
                /\ DOMAIN call_stack'[top] = DOMAIN call_stack[top] \cup {x}
                /\ \A y \in DOMAIN call_stack[top] \ {x} :
                     call_stack'[top][y] = call_stack[top][y]
                /\ call_stack'[top][x] = IF ctl.m = "Ok" THEN ctl.v ELSE Undefined
     /\ (/\ At("evaluate_variable_declaration", "declarator") /\ ctl.m = "loop"
          /\ Head(kont).idx > Len(Head(kont).node.declarators))
          => ctl' = Ok("Value", Undefined, "evaluate_statement")]_vars

\* C12: once the condition of an if_expression is evaluated, a value that is
\* no Int fails the expression with no arm evaluated; a nonzero Int goes to
\* the consequence block and nowhere else; Int 0 goes to the else arm, a
\* block or a chained if_expression; and Int 0 with no else arm yields plain
\* Undefined. None of these steps changes the scope stack.
C12_IfCondition ==
  [][(At("evaluate_if_expression", "condition") /\ ctl.m = "Ok")
       => LET c == ctl.v
              n == Head(kont).node
          IN /\ call_stack' = call_stack
             /\ IF c.t # "SamInt"
                THEN ctl'.m = "Err" /\ kont' = Tail(kont)
                ELSE IF c.i # 0
                THEN /\ ctl' = CallBlock(n.consequence, <<>>)
                     /\ Len(kont') = Len(kont)
                ELSE IF n.else = NoNode
                THEN /\ ctl' = Ok("Value", Undefined, "evaluate_if_expression")
                     /\ kont' = Tail(kont)
                ELSE IF n.else.kind = "statement_block"
                THEN /\ ctl' = CallBlock(n.else, <<>>)
                     /\ Len(kont') = Len(kont)
                ELSE /\ n.else.kind = "if_expression"
                     /\ ctl' = CallExpression(n.else.condition)
                     /\ Head(kont').node = n.else
                     /\ Head(kont').pc = "condition"
                     /\ Tail(kont') = Tail(kont)]_vars

\* let b = c(m()); if (b) { };  with c and m unbound b is the Object of the
\* shell fallback, and the if_expression fails on it
C12_Witness ==
  /\ source = <<CallCM, IfB>>
  /\ status = "Err"
  /\ ctl = Err("Condition must be integer")
  /\ call_stack[1]["b"].t = "SamObject"

\* The operator is about to be applied to the operands left and right.
Applying(ops) ==
  /\ At("evaluate_binary_expression", "right") /\ ctl.m = "Ok"
  /\ Head(kont).node.op \in ops

\* C13: an ordering comparison whose operands are not both Numbers fails the
\* evaluation with an error; it produces no Value.
C13_OrderingOnNonNumbersFails ==
  [][(/\ Applying({"<", ">", "<=", ">="})
      /\ ~(IsNumber(Head(kont).vals[1]) /\ IsNumber(ctl.v)))
       => ctl'.m = "Err"]_vars

\* C14: on two Ints a % b with b # 0 yields the Int truncating remainder, at
\* the ends of the range as well; a % 0 and a % 0.0 yield Undefined for every
\* Number a; and a / b on two Ints yields a Float.
C14_RemainderAndDivision ==
  [][(/\ Applying({"%", "/"})
      /\ IsNumber(Head(kont).vals[1]) /\ IsNumber(ctl.v))
       => LET a == Head(kont).vals[1]
              b == ctl.v
              q == IF (a.i < 0) = (b.i < 0) THEN Abs(a.i) \div Abs(b.i)
                   ELSE -(Abs(a.i) \div Abs(b.i))
          IN IF Head(kont).node.op = "/"
             THEN (a.t = "SamInt" /\ b.t = "SamInt")
                    => (ctl'.m = "Ok" /\ ctl'.sig = "Value" /\ ctl'.v.t = "SamFloat")
             ELSE IF b = SamInt(0) \/ b = SamFloat(0, 1)
             THEN ctl'.m = "Ok" /\ ctl'.sig = "Value" /\ ctl'.v = Undefined
             ELSE (a.t = "SamInt" /\ b.t = "SamInt")
                    => (/\ ctl'.m = "Ok" /\ ctl'.sig = "Value"
                        /\ ctl'.v = SamInt(a.i - b.i * q))]_vars

C16_Equal(a, b) ==
  LET Num(v) == IF v.t = "SamInt" THEN v.i ELSE v.num
      Den(v) == IF v.t = "SamInt" THEN 1 ELSE v.den
  IN \/ /\ IsNumber(a) /\ IsNumber(b)
        /\ ~(Num(a) = 0 /\ Den(a) = 0) /\ ~(Num(b) = 0 /\ Den(b) = 0)
        /\ Num(a) * Den(b) = Num(b) * Den(a)
        /\ (Den(a) = 0) = (Den(b) = 0)
     \/ a.t = "Undefined" /\ b.t = "Undefined"
     \/ a.t = "SamString" /\ b.t = "SamString" /\ a.s = b.s

C17_RegistersInGlobalFrame ==
  [][(Running /\ ctl.m = "register_ffi")
       => IF ctl'.m = "Err" THEN call_stack' = call_stack
          ELSE /\ Len(call_stack') = Len(call_stack)
               /\ \A i \in 2..Len(call_stack) : call_stack'[i] = call_stack[i]
               /\ DOMAIN call_stack'[1] = DOMAIN call_stack[1] \cup {ctl.name}
               /\ call_stack'[1][ctl.name].t = "SamForeignFunction"
               /\ \A y \in DOMAIN call_stack[1] \ {ctl.name} :
                    call_stack'[1][y] = call_stack[1][y]]_vars

\* C18: once the function position of a call is evaluated, exactly one thing
\* happens. A user Function is run (its body block is entered, or its arity
\* check fails). Otherwise a function position that is no identifier is an
\* error; an identifier bound to a ForeignFunction in the global frame, and
\* only there, invokes it; and any other identifier is run as a shell command.
C18_CallDispatch ==
  [][(At("evaluate_call_expression", "function") /\ ctl.m \in {"Ok", "Err"})
       => LET fn == Head(kont).node.function
              args == Head(kont).vals
          IN IF ctl.m = "Ok" /\ ctl.sig = "Value" /\ ctl.v.t = "SamFunction"
             THEN IF Len(args) = Len(ctl.v.params)
                  THEN /\ ctl'.m = "evaluate_statement_block"
                       /\ ctl'.node = descendant_for_byte_range(ctl.v.body)
                       /\ ctl'.bindings = [i \in 1..Len(args) |-> <<ctl.v.params[i], args[i]>>]
                  ELSE ctl'.m = "Err"
             ELSE IF fn.kind # "identifier"
             THEN ctl' = Err("Invalid shell command")
             ELSE IF /\ fn.name \in DOMAIN call_stack[1]
                     /\ call_stack[1][fn.name].t = "SamForeignFunction"
             THEN ctl' \in {ffi_call(run) : run \in ForeignRuns}
             ELSE ctl' \in {shell_call(run) : run \in ShellRuns}]_vars

\* interface '/tmp/foo.json' load bar; let q = (p) => { p(); }, z = q(bar);
\* in the body of q the parameter p holds the ForeignFunction, the global
\* frame binds no p, and p() has run as a shell command
C18_Witness ==
  /\ source = <<LoadBar, LetQ>>
  /\ Running
  /\ ctl.m = "Ok" /\ ctl.from = "Shell::call"
  /\ depth(call_stack) = 2
  /\ call_stack[2]["p"].t = "SamForeignFunction"
  /\ "p" \notin DOMAIN call_stack[1]

\* The Value a JSON value converts to, as claimed: total, with an array
\* converted element by element.
RECURSIVE C19_Converted(_)
C19_Converted(j) ==
  CASE j.j = "Null" -> Undefined
    [] j.j = "Bool" -> SamInt(IF j.b THEN 1 ELSE 0)
    [] j.j = "String" -> SamString(j.str)
    [] j.j = "Number" -> IF j.den = 1 THEN SamInt(j.num) ELSE Float(j.num, j.den)
    [] j.j = "Object" -> SamObject([k \in DOMAIN j.obj |-> C19_Converted(j.obj[k])])
    [] j.j = "Array" -> SamArray([i \in 1..Len(j.arr) |-> C19_Converted(j.arr[i])])

\* C19: a ForeignFunction call whose process prints a well-formed JSON value
\* yields that value converted, whatever its shape: the conversion never
\* aborts the evaluation.
C19_JsonConversionTotal ==
  [][(/\ At("evaluate_call_expression", "function") /\ ctl.m \in {"Ok", "Err"}
      /\ ~(ctl.m = "Ok" /\ ctl.sig = "Value" /\ ctl.v.t = "SamFunction")
      /\ Head(kont).node.function.kind = "identifier"
      /\ Head(kont).node.function.name \in DOMAIN call_stack[1]
      /\ call_stack[1][Head(kont).node.function.name].t = "SamForeignFunction")
       => /\ ctl'.m \in {"Ok", "Err"}
          /\ \E run \in ForeignRuns :
               IF run.spawned /\ run.stdout.file = "json"
               THEN /\ ctl'.m = "Ok" /\ ctl'.sig = "Value"
                    /\ ctl'.v = C19_Converted(run.stdout.json)
               ELSE ctl'.m = "Err"]_vars

\* C20: the shell fallback fails only when no process could be spawned; for
\* every process that ran, whatever its exit status, it yields an Object
\* with exactly the keys stdout and stderr, Strings of what the process
\* wrote, and status, the Int exit code or -1 when there was none.
C20_ShellResult ==
  [][(/\ At("evaluate_call_expression", "function") /\ ctl.m \in {"Ok", "Err"}
      /\ ~(ctl.m = "Ok" /\ ctl.sig = "Value" /\ ctl.v.t = "SamFunction")
      /\ Head(kont).node.function.kind = "identifier"
      /\ ~(/\ Head(kont).node.function.name \in DOMAIN call_stack[1]
           /\ call_stack[1][Head(kont).node.function.name].t = "SamForeignFunction"))
       => \E run \in ShellRuns :
            IF ~run.spawned THEN ctl' = Err("spawn failed")
            ELSE /\ ctl'.m = "Ok" /\ ctl'.sig = "Value"
                 /\ ctl'.v.t = "SamObject"
                 /\ DOMAIN ctl'.v.map = {"stdout", "stderr", "status"}
                 /\ ctl'.v.map["stdout"] = [t |-> "SamString", s |-> run.stdout]
                 /\ ctl'.v.map["stderr"] = [t |-> "SamString", s |-> run.stderr]
                 /\ ctl'.v.map["status"] =
                      [t |-> "SamInt", i |-> IF run.code = <<>> THEN -1 ELSE run.code[1]]]_vars

\* let o = bar();  with no bar registered and a process that exits with
\* status 1: evaluation succeeds and o holds the process's result
C20_Witness ==
  /\ source = <<CallBar>>
  /\ status = "Ok"
  /\ call_stack[1]["o"].map["status"] = SamInt(1)
  /\ call_stack[1]["o"].map["stderr"] = SamString("sh: failed")

\* A call of a user Function is running its body.
InBody ==
  \E k \in 1..Len(kont) : kont[k].fn = "evaluate_call_expression" /\ kont[k].pc = "body"

\* C21: a Function carries no environment. Its body is entered on top of the
\* scope stack that is live at the call, every frame of the caller kept
\* beneath, and while a body runs an identifier is read from, and an assignment
\* written to, the topmost live frame that binds the name, whichever caller
\* owns it; a name no live frame binds fails.
C21_FreeVariablesResolveAtCall ==
  [][/\ (At("evaluate_call_expression", "body") /\ ctl.m = "evaluate_statement_block")
          => /\ Len(call_stack') = Len(call_stack) + 1
             /\ SubSeq(call_stack', 1, Len(call_stack)) = call_stack
     /\ (InBody /\ Eval("identifier"))
          => ctl' = IF Binding(call_stack, ctl.node.name) = {}
                    THEN Err("Variable not defined")
                    ELSE Ok("Value",
                            call_stack[Topmost(call_stack, ctl.node.name)][ctl.node.name],
                            "evaluate_expression")
     /\ (InBody /\ At("evaluate_assignment", "rhs") /\ ctl.m = "Ok")
          => LET x == Head(kont).node.lhs
             IN IF Binding(call_stack, x) = {}
                THEN ctl' = Err("Assigning to undefined variable")
                       /\ call_stack' = call_stack
                ELSE call_stack' =
                       [call_stack EXCEPT ![Topmost(call_stack, x)][x] = ctl.v]]_vars

\* d, called in the block that declares y, has read and written that y and
\* copied it to the global n; called again once the block is gone, it fails on y
C21_Witness ==
  /\ source = <<LetD>>
  /\ status = "Err"
  /\ ctl = Err("Variable not defined")
  /\ call_stack[1]["n"] = SamInt(3)
  /\ Binding(call_stack, "y") = {}

\* C22: evaluating a lambda_expression yields, in one step, a Function of the
\* body's byte range and the parameter names in their order; no frame of the
\* scope stack and no pending evaluation changes, and no statement_block is
\* ever run but as the arm of an if_expression or the body of a call.
C22_LambdaIsInert ==
  [][/\ Eval("lambda_expression")
          => /\ ctl' = Ok("Value", SamFunction(ctl.node.body, ctl.node.parameters),
                          "evaluate_expression")
             /\ call_stack' = call_stack
             /\ kont' = kont
     /\ \A k \in 1..Len(kont') :
          kont'[k].fn = "evaluate_statement_block"
            => /\ k < Len(kont')
               /\ \/ kont'[k + 1].fn = "evaluate_if_expression"
                  \/ kont'[k + 1].fn = "evaluate_call_expression"
                       /\ kont'[k + 1].pc = "body"]_vars

\* let c = (p) => { return 1; }, k = (p) => { return 2; }, m = () => { c = k; };
\* binds three Functions: the body of m has not run, c is still the first one
C22_Witness ==
  Result(<<LetCKM>>, [c |-> SamFunction("c", <<"p">>), k |-> SamFunction("k", <<"p">>),
                      m |-> SamFunction("m", <<>>)])

\* The frame a call starts with: each parameter name bound to the argument at
\* its position (at the last of its positions, were a name written twice).
C23_CallFrame(params, args) ==
  [x \in {params[i] : i \in DOMAIN params} |->
     args[CHOOSE i \in DOMAIN params :
            params[i] = x /\ \A j \in DOMAIN params : params[j] = x => j <= i]]

\* C23: a call of a user Function with as many arguments as parameters enters
\* the body with exactly one new frame on top, holding parameter i bound to
\* argument i and nothing else, the frames below unchanged; an assignment to a
\* name the top frame binds changes that frame only; and when the call hands
\* back its result the stack is as deep as it was at the call. So
\* a = (x, y) => { return x + 5; } gives a(4, 3) = Int 9, and a body that
\* assigns its parameter x leaves the x of the caller alone.
C23_CallPushesOneFrame ==
  [][/\ (/\ At("evaluate_call_expression", "function") /\ IsFunction(ctl)
          /\ Len(Head(kont).vals) = Len(ctl.v.params))
          => /\ ctl'.m = "evaluate_statement_block"
             /\ ctl'.node = descendant_for_byte_range(ctl.v.body)
             /\ call_stack' = call_stack
             /\ C23_CallFrame([i \in DOMAIN ctl'.bindings |-> ctl'.bindings[i][1]],
                              [i \in DOMAIN ctl'.bindings |-> ctl'.bindings[i][2]])
                  = C23_CallFrame(ctl.v.params, Head(kont).vals)
     /\ (At("evaluate_call_expression", "body") /\ ctl.m = "evaluate_statement_block")
          => call_stack' =
               Append(call_stack,
                      C23_CallFrame([i \in DOMAIN ctl.bindings |-> ctl.bindings[i][1]],
                                    [i \in DOMAIN ctl.bindings |-> ctl.bindings[i][2]]))
     /\ (/\ At("evaluate_assignment", "rhs") /\ ctl.m = "Ok"
          /\ Head(kont).node.lhs \in DOMAIN call_stack[Len(call_stack)])
          => /\ Len(call_stack') = Len(call_stack)
             /\ \A i \in 1..(Len(call_stack) - 1) : call_stack'[i] = call_stack[i]
             /\ call_stack'[Len(call_stack)] =
                  [call_stack[Len(call_stack)] EXCEPT ![Head(kont).node.lhs] = ctl.v]
     /\ (At("evaluate_call_expression", "body") /\ ctl.m = "Ok")
          => depth(call_stack) = Head(kont).entry
     /\ (source = <<CallA2>> /\ status = "Ok")
          => call_stack = <<[a |-> SamFunction("a", <<"x", "y">>), b |-> SamInt(9)]>>]_vars

\* let x = 5, s = (x) => { x = x + 1; return x; }, b = s(1);  gives b = 2: the
\* parameter x went from 1 to 2 in the frame of the call, the global x is 5
C23_Witness ==
  Result(<<LetS>>, [x |-> SamInt(5), s |-> SamFunction("s", <<"x">>), b |-> SamInt(2)])

\* C24: the scope stack always holds the global frame. Every step leaves the
\* depth, pushes one frame on top or pops the top one, the frames beneath
\* staying in place with their names; the global frame only gains names; and
\* when evaluate returns Ok the stack is the global frame alone.
C24_GlobalFramePermanent ==
  [][/\ depth(call_stack) >= 1 /\ depth(call_stack') >= 1
     /\ depth(call_stack') \in {depth(call_stack) - 1, depth(call_stack),
                                depth(call_stack) + 1}
     /\ depth(call_stack') # depth(call_stack)
          => \A i \in 1..depth(call_stack) :
               i <= depth(call_stack') => call_stack'[i] = call_stack[i]
     /\ DOMAIN call_stack[1] \subseteq DOMAIN call_stack'[1]
     /\ status' = "Ok" => depth(call_stack') = 1]_vars

\* let x = 5; let a = (x, y) => { return x + 5; }, b = a(4, 3);  has pushed and
\* popped the frame of the call and returns the global frame alone
C24_Witness ==
  /\ status = "Ok"
  /\ source = <<LetX, CallA2>>
  /\ DOMAIN call_stack = {1}
  /\ DOMAIN call_stack[1] = {"x", "a", "b"}

\* C25: a binary expression evaluates its left operand first; once that has
\* yielded, it evaluates its right operand, whatever the operator and the left
\* value; it hands back a result only once the right operand has yielded; and
\* the result of `&&` and `||` is Int 0 or Int 1. So the call in the right
\* operand of `0 && e()` and of `1 || e()` runs: e has counted both.
C25_BothOperandsEvaluated ==
  [][/\ Eval("binary_expression")
          => /\ ctl' = CallExpression(ctl.node.left)
             /\ Len(kont') = Len(kont) + 1
             /\ call_stack' = call_stack
     /\ (At("evaluate_binary_expression", "left") /\ ctl.m = "Ok")
          => /\ ctl' = CallExpression(Head(kont).node.right)
             /\ Len(kont') = Len(kont)
             /\ call_stack' = call_stack
     /\ (/\ Running /\ kont # <<>> /\ Head(kont).fn = "evaluate_binary_expression"
          /\ Len(kont') < Len(kont) /\ ctl'.m = "Ok")
          => Head(kont).pc = "right" /\ ctl.m = "Ok"
     /\ (/\ At("evaluate_binary_expression", "right") /\ ctl.m = "Ok"
          /\ Head(kont).node.op \in {"&&", "||"})
          => ctl'.m = "Ok" /\ ctl'.sig = "Value" /\ ctl'.v \in {SamInt(0), SamInt(1)}
     /\ (source = <<LetAndOr>> /\ status = "Ok")
          => call_stack[1]["n"] = SamInt(2)]_vars

\* let n = 0, e = () => { n = n + 1; }, t = 0 && e(), w = 1 || e();  ends with
\* n = 2, t = 0 and w = 1
C25_Witness ==
  Result(<<LetAndOr>>, [n |-> SamInt(2), e |-> SamFunction("e", <<>>),
                        t |-> SamInt(0), w |-> SamInt(1)])

\* C26: applying + - or * to two Ints yields an Int as a plain Value for
\* every pair of Ints of the machine width, the pairs whose mathematical
\* result is out of range included: the evaluation goes on.
C26_IntArithmeticTotal ==
  [][(/\ Applying({"+", "-", "*"})
      /\ Head(kont).vals[1].t = "SamInt" /\ ctl.v.t = "SamInt")
       => /\ ctl'.m = "Ok" /\ ctl'.sig = "Value"
          /\ ctl'.v.t = "SamInt"
          /\ MinInt <= ctl'.v.i /\ ctl'.v.i <= MaxInt]_vars

====
